---- MODULE Spec2Model ----
(***************************************************************************)
(* Model of src/loan_web.py: a Streamlit script that loads a pickled       *)
(* classifier once (load_model, cached by st.cache_data), collects a loan  *)
(* applicant's fields with widgets and, on Submit, validates the identity  *)
(* fields, builds a one-row feature record, calls model.predict and        *)
(* reports the decision.                                                   *)
(*                                                                         *)
(* Streamlit executes the whole script, top to bottom, on every            *)
(* interaction: line 27 (model = load_model()) and then run().  One script *)
(* execution is one step of the model.  The logo (lines 35-40) and the     *)
(* page title take no part in the pipeline and are left out.               *)
(*                                                                         *)
(* Strings are sequences of characters; a message is the sequence of its   *)
(* literal pieces and of the characters interpolated into it.              *)
(***************************************************************************)
EXTENDS Integers, Sequences, FiniteSets, TLC

VARIABLES
    storage,      \* what is at pickle_path: "absent", "present", "corrupt"
    cache,        \* st.cache_data entry of load_model: [filled, value]
    reads,        \* number of times pickle_path was opened
    model,        \* the module global: "unset", "None" or "artifact"
    load_error,   \* load_model's st.error notice is on the page
    form,         \* the widget values of the latest script execution
    submitted,    \* st.button("Submit") returned True in the latest execution
    stages,       \* the pipeline stages run() went through
    reports,      \* the notices run() emitted (st.error / st.success)
    calls,        \* the feature frames handed to model.predict
    prediction,   \* what model.predict returned (<<>> when it did not return)
    raised,       \* the exception model.predict raised ("" when none)
    crashed       \* the script execution ended in an uncaught exception

vars == <<storage, cache, reads, model, load_error, form, submitted,
          stages, reports, calls, prediction, raised, crashed>>

----------------------------------------------------------------------------
(* Bounds of the exploration *)

MaxStrLen == 1      \* longest account number / name typed
MaxAmount == 1      \* largest income / loan amount entered
MaxChanged == 1     \* how many of the ten feature fields differ from default
MaxReads == 2       \* how many times the script may open the artifact
MaxLabel == 1       \* largest class label the artifact returns
MaxProbe == 1       \* how far outside the widgets' ranges raw values go

----------------------------------------------------------------------------
(* The option tuples and tables of run() *)

gender_display == <<"Female", "Male">>
mar_display == <<"No", "Yes">>
dep_display == <<"No", "One", "Two", "More than Two">>
edu_display == <<"Not Graduate", "Graduate">>
emp_display == <<"No", "Yes">>
dur_display == <<"2 Month", "6 Month", "8 Month", "1 Year", "16 Month">>
area_display == <<"Rural", "Semi-Urban", "Urban">>

duration_map == (0 :> 60) @@ (1 :> 180) @@ (2 :> 240) @@ (3 :> 360) @@ (4 :> 480)

columns == <<"Gender", "Married", "Dependents", "Education", "Self_Employed",
             "ApplicantIncome", "CoapplicantIncome", "LoanAmount",
             "Loan_Amount_Term", "Property_Area">>

\* range(len(display)): the values a selectbox can return
Options(display) == 0..(Len(display) - 1)

\* the strings of at most n characters c
Strs(c, n) == {[i \in 1..k |-> c] : k \in 0..n}

IdentityFields == {"account_no", "fn"}

FeatureFields == {"gender", "marital", "dependents", "education", "employment",
                  "mon_income", "co_mon_income", "loan_amount", "duration", "area"}

Fields == IdentityFields \cup FeatureFields

\* the initial value of every widget
Default ==
    [account_no |-> <<>>, fn |-> <<>>,
     gender |-> 0, marital |-> 0, dependents |-> 0, education |-> 0,
     employment |-> 0, mon_income |-> 0, co_mon_income |-> 0,
     loan_amount |-> 0, duration |-> 0, area |-> 0]

\* the values each widget can deliver
WidgetDomain(w) ==
    CASE w = "account_no" -> Strs("1", MaxStrLen)
      [] w = "fn" -> Strs("A", MaxStrLen)
      [] w = "gender" -> Options(gender_display)
      [] w = "marital" -> Options(mar_display)
      [] w = "dependents" -> Options(dep_display)
      [] w = "education" -> Options(edu_display)
      [] w = "employment" -> Options(emp_display)
      [] w = "mon_income" -> 0..MaxAmount
      [] w = "co_mon_income" -> 0..MaxAmount
      [] w = "loan_amount" -> 0..MaxAmount
      [] w = "duration" -> Options(dur_display)
      [] w = "area" -> Options(area_display)

\* the values that can arrive at the input boundary when the widgets' own
\* constraints (min_value, the option range) are not relied upon
RawDomain(w) ==
    CASE w \in {"mon_income", "co_mon_income", "loan_amount"} ->
            (0 - MaxProbe)..MaxAmount
      [] w = "duration" ->
            (0 - MaxProbe)..(Len(dur_display) - 1 + MaxProbe)
      [] OTHER -> WidgetDomain(w)

Changed(f) == Cardinality({w \in FeatureFields : f[w] # Default[w]})

----------------------------------------------------------------------------
(* The notices run() can emit *)

ValidationMsg ==
    [level |-> "error",
     text |-> <<"Please fill in all required fields (Account Number and Full Name).">>]

UnavailableMsg ==
    [level |-> "error",
     text |-> <<"The prediction model is not loaded. Please ensure the model file is available.">>]

NotEligibleText == "Based on our calculations, you are not eligible for the loan."

EligibleText == "Congratulations! You are eligible for the loan."

\* f"Hello {fn}, Account Number: {account_no}. " followed by the verdict
Greeting(fn, account_no) ==
    <<"Hello ">> \o fn \o <<", Account Number: ">> \o account_no \o <<". ">>

PredictionErrorMsg(e) ==
    [level |-> "error", text |-> <<"An error occurred during prediction: ", e>>]

----------------------------------------------------------------------------
(* load_model, as st.cache_data runs it: a filled entry is returned without *)
(* executing the body; the body's return value (None included) fills the   *)
(* entry; an exception leaving the body fills nothing.  The body catches   *)
(* FileNotFoundError only, so any other failure of open / pickle.load      *)
(* leaves load_model.                                                      *)

StorageStates == {"absent", "present", "corrupt"}

EmptyCache == [filled |-> FALSE, value |-> "None"]

load_model(c, s) ==
    IF c.filled
    THEN [cache |-> c, value |-> c.value, read |-> 0, raised |-> FALSE]
    ELSE CASE s = "present" ->
                [cache |-> [filled |-> TRUE, value |-> "artifact"],
                 value |-> "artifact", read |-> 1, raised |-> FALSE]
           [] s = "absent" ->
                [cache |-> [filled |-> TRUE, value |-> "None"],
                 value |-> "None", read |-> 1, raised |-> FALSE]
           [] OTHER ->
                [cache |-> c, value |-> "unset", read |-> 1, raised |-> TRUE]

----------------------------------------------------------------------------
(* run() *)

\* faulty variant of DurationValue: no default for an unknown index
DurationValueNoFallback(duration) ==
    IF duration \in DOMAIN duration_map THEN duration_map[duration] ELSE duration

\* duration_map.get(duration, 60)
DurationValue(duration) ==
    IF duration \in DOMAIN duration_map THEN duration_map[duration] ELSE 60

\* faulty variant of Values: loan amount and term change places
ValuesSwapped(f) ==
    << <<f.gender, f.marital, f.dependents, f.education, f.employment,
         f.mon_income, f.co_mon_income, DurationValue(f.duration),
         f.loan_amount, f.area>> >>

\* the one-row list of lists handed to pd.DataFrame
Values(f) ==
    << <<f.gender, f.marital, f.dependents, f.education, f.employment,
         f.mon_income, f.co_mon_income, f.loan_amount,
         DurationValue(f.duration), f.area>> >>

\* pd.DataFrame(values, columns=columns)
Features(f) == [columns |-> columns, rows |-> Values(f)]

\* what model.predict can do: return one label per row, or raise
Causes == {"ValueError"}

PredictOutcomes ==
    {[raised |-> "", output |-> <<l>>] : l \in 0..MaxLabel}
        \cup {[raised |-> c, output |-> <<>>] : c \in Causes}

\* predict is called in the submit branch only: without a click one outcome
\* stands for all
Outcomes(clicked) ==
    IF clicked THEN PredictOutcomes ELSE {[raised |-> "", output |-> <<0>>]}

\* model.predict(features); on None the attribute lookup itself raises
CallPredict(m, o) ==
    IF m = "None" THEN [raised |-> "AttributeError", output |-> <<>>] ELSE o

\* faulty variant of Present: the comparison is inverted
PresentInverted(result, fn, account_no) ==
    IF result = 1
    THEN [level |-> "error",
          text |-> Greeting(fn, account_no) \o <<NotEligibleText>>]
    ELSE [level |-> "success",
          text |-> Greeting(fn, account_no) \o <<EligibleText>>]

\* if result == 0: st.error(...) else: st.success(...)
Present(result, fn, account_no) ==
    IF result = 0
    THEN [level |-> "error",
          text |-> Greeting(fn, account_no) \o <<NotEligibleText>>]
    ELSE [level |-> "success",
          text |-> Greeting(fn, account_no) \o <<EligibleText>>]

NoRun ==
    [stages |-> <<>>, reports |-> <<>>, calls |-> <<>>, prediction |-> <<>>,
     raised |-> "", crashed |-> FALSE]

\* faulty variant of Infer: no except clause around predict
InferUncaught(f, m, o) ==
    LET r == CallPredict(m, o)
    IN  IF r.raised = ""
        THEN [NoRun EXCEPT !.stages = <<"Encoding", "Inferring", "Presenting">>,
                           !.reports = <<Present(r.output[1], f.fn, f.account_no)>>,
                           !.calls = <<Features(f)>>,
                           !.prediction = r.output]
        ELSE [NoRun EXCEPT !.stages = <<"Encoding", "Inferring">>,
                           !.calls = <<Features(f)>>,
                           !.raised = r.raised,
                           !.crashed = TRUE]

\* faulty variant of Infer: a failed predict is tried again
InferRetry(f, m, o) ==
    LET r == CallPredict(m, o)
    IN  IF r.raised = ""
        THEN [NoRun EXCEPT !.stages = <<"Encoding", "Inferring", "Presenting">>,
                           !.reports = <<Present(r.output[1], f.fn, f.account_no)>>,
                           !.calls = <<Features(f)>>,
                           !.prediction = r.output]
        ELSE [NoRun EXCEPT !.stages = <<"Encoding", "Inferring", "Inferring", "Failed">>,
                           !.reports = <<PredictionErrorMsg(r.raised)>>,
                           !.calls = <<Features(f), Features(f)>>,
                           !.raised = r.raised]

\* the else branch: build the frame, predict inside try / except Exception
Infer(f, m, o) ==
    LET r == CallPredict(m, o)
    IN  IF r.raised = ""
        THEN [NoRun EXCEPT !.stages = <<"Encoding", "Inferring", "Presenting">>,
                           !.reports = <<Present(r.output[1], f.fn, f.account_no)>>,
                           !.calls = <<Features(f)>>,
                           !.prediction = r.output]
        ELSE [NoRun EXCEPT !.stages = <<"Encoding", "Inferring", "Failed">>,
                           !.reports = <<PredictionErrorMsg(r.raised)>>,
                           !.calls = <<Features(f)>>,
                           !.raised = r.raised]

\* faulty variant of IdentityMissing: the name is not checked
OnlyAccountChecked(f) == f.account_no = <<>>

\* not account_no or not fn
IdentityMissing(f) == f.account_no = <<>> \/ f.fn = <<>>

\* faulty variant of ModelUnavailable: the check is missing
ModelCheckSkipped(m) == FALSE

\* model is None
ModelUnavailable(m) == m = "None"

\* faulty variant of Pipeline: the model check comes first
PipelineModelFirst(f, m, o) ==
    IF ModelUnavailable(m)
    THEN [NoRun EXCEPT !.stages = <<"Validating", "Failed">>,
                       !.reports = <<UnavailableMsg>>]
    ELSE IF IdentityMissing(f)
    THEN [NoRun EXCEPT !.stages = <<"Validating", "Failed">>,
                       !.reports = <<ValidationMsg>>]
    ELSE [Infer(f, m, o) EXCEPT !.stages = <<"Validating">> \o @]

\* the body of "if st.button("Submit"):"; lines 90-93 are the Validating stage
Pipeline(f, m, o) ==
    IF IdentityMissing(f)
    THEN [NoRun EXCEPT !.stages = <<"Validating", "Failed">>,
                       !.reports = <<ValidationMsg>>]
    ELSE IF ModelUnavailable(m)
    THEN [NoRun EXCEPT !.stages = <<"Validating", "Failed">>,
                       !.reports = <<UnavailableMsg>>]
    ELSE [Infer(f, m, o) EXCEPT !.stages = <<"Validating">> \o @]

\* run(): read the widgets, then the submit branch when the button was clicked
run(f, clicked, m, o) ==
    IF clicked
    THEN [Pipeline(f, m, o) EXCEPT !.stages = <<"Collecting">> \o @]
    ELSE [NoRun EXCEPT !.stages = <<"Collecting">>]

----------------------------------------------------------------------------
(* One execution of the script: line 27, then run() *)

ScriptRun(f, clicked) ==
    LET ld == load_model(cache, storage)
    IN  /\ cache.filled \/ reads < MaxReads
        /\ cache' = ld.cache
        /\ reads' = reads + ld.read
        /\ form' = f
        /\ UNCHANGED storage
        /\ IF ld.raised
           THEN /\ model' = "unset"
                /\ load_error' = FALSE
                /\ submitted' = FALSE
                /\ stages' = <<>>
                /\ reports' = <<>>
                /\ calls' = <<>>
                /\ prediction' = <<>>
                /\ raised' = ""
                /\ crashed' = TRUE
           ELSE /\ model' = ld.value
                /\ load_error' = (ld.value = "None")
                /\ submitted' = clicked
                /\ \E o \in Outcomes(clicked) :
                      LET r == run(f, clicked, ld.value, o)
                      IN  /\ stages' = r.stages
                          /\ reports' = r.reports
                          /\ calls' = r.calls
                          /\ prediction' = r.prediction
                          /\ raised' = r.raised
                          /\ crashed' = r.crashed

Init ==
    /\ storage \in StorageStates
    /\ cache = EmptyCache
    /\ reads = 0
    /\ model = "unset"
    /\ load_error = FALSE
    /\ form = Default
    /\ submitted = FALSE
    /\ stages = <<>>
    /\ reports = <<>>
    /\ calls = <<>>
    /\ prediction = <<>>
    /\ raised = ""
    /\ crashed = FALSE

\* the user changes one widget: the script runs with the new value
Edit ==
    \E w \in Fields : \E v \in WidgetDomain(w) :
        LET f == [form EXCEPT ![w] = v]
        IN  /\ v # form[w]
            /\ Changed(f) <= MaxChanged
            /\ ScriptRun(f, FALSE)

\* the same, with a value arriving at the input boundary unconstrained
EditRaw ==
    \E w \in Fields : \E v \in RawDomain(w) :
        LET f == [form EXCEPT ![w] = v]
        IN  /\ v # form[w]
            /\ Changed(f) <= MaxChanged
            /\ ScriptRun(f, FALSE)

\* the user clicks Submit: the script runs with the button returning True
Submit == ScriptRun(form, TRUE)

\* a new browser session: the script runs with every widget at its default
NewSession == ScriptRun(Default, FALSE)

\* the environment replaces, removes or damages the file at pickle_path
StorageChange ==
    /\ \E s \in StorageStates \ {storage} : storage' = s
    /\ UNCHANGED <<cache, reads, model, load_error, form, submitted,
                   stages, reports, calls, prediction, raised, crashed>>

Next == Edit \/ Submit \/ NewSession \/ StorageChange

Spec == Init /\ [][Next]_vars

NextRaw == EditRaw \/ Submit \/ NewSession \/ StorageChange

SpecRaw == Init /\ [][NextRaw]_vars

----------------------------------------------------------------------------
(* Vocabulary of the properties *)

\* sub occurs in text as a run of consecutive elements
Contains(text, sub) ==
    \E i \in 0..(Len(text) - Len(sub)) : SubSeq(text, i + 1, i + Len(sub)) = sub

IsDecision(msg) ==
    Contains(msg.text, <<NotEligibleText>>) \/ Contains(msg.text, <<EligibleText>>)

DecisionShown == \E i \in 1..Len(reports) : IsDecision(reports[i])

IdentityGiven == form.account_no # <<>> /\ form.fn # <<>>

TermValues == {60, 180, 240, 360, 480}

StageRank(s) ==
    CASE s = "Collecting" -> 1
      [] s = "Validating" -> 2
      [] s = "Encoding" -> 3
      [] s = "Inferring" -> 4
      [] s = "Presenting" -> 5
      [] OTHER -> 6

----------------------------------------------------------------------------
(* C1: a submission whose account number or name is empty ends in the      *)
(* validation error, and model.predict is not invoked for it, whatever the *)
(* other fields hold and whether or not the model is loaded.               *)
C1_EmptyIdentityRejected ==
    (submitted /\ (form.account_no = <<>> \/ form.fn = <<>>))
        => /\ reports = <<ValidationMsg>>
           /\ calls = <<>>
           /\ prediction = <<>>
           /\ raised = ""

C1_Witness ==
    /\ submitted
    /\ form.fn = <<>>
    /\ form.account_no # <<>>
    /\ model = "artifact"
    /\ reports = <<ValidationMsg>>

(* C2: once load_model has returned None, every submission with both       *)
(* identity fields filled is answered with the model-unavailable report,   *)
(* predict is not attempted, and from then on the global stays None and no *)
(* decision message is ever shown.                                         *)
C2_UnavailableState ==
    /\ (submitted /\ model = "None" /\ IdentityGiven)
          => (reports = <<UnavailableMsg>> /\ calls = <<>> /\ raised = "")
    /\ (model = "None") => ~DecisionShown

C2_NoModelNoInference ==
    /\ []C2_UnavailableState
    /\ [][(model = "None") => (model' = "None" /\ ~DecisionShown')]_vars

C2_Witness ==
    /\ submitted
    /\ model = "None"
    /\ IdentityGiven
    /\ storage = "present"
    /\ reports = <<UnavailableMsg>>

(* C3: when predict returned, the first label of its output decides the    *)
(* message: 0 gives the not-eligible notice, 1 the eligible one, and both  *)
(* carry the submitted name and account number as typed.                   *)
C3_LabelDecidesMessage ==
    (prediction # <<>>)
        => /\ Len(reports) = 1
           /\ Contains(reports[1].text, form.fn)
           /\ Contains(reports[1].text, form.account_no)
           /\ (prediction[1] = 0)
                 => /\ reports[1].level = "error"
                    /\ Contains(reports[1].text, <<NotEligibleText>>)
                    /\ ~Contains(reports[1].text, <<EligibleText>>)
           /\ (prediction[1] = 1)
                 => /\ reports[1].level = "success"
                    /\ Contains(reports[1].text, <<EligibleText>>)
                    /\ ~Contains(reports[1].text, <<NotEligibleText>>)

C3_Witness ==
    /\ prediction = <<0>>
    /\ IdentityGiven
    /\ Len(reports) = 1
    /\ reports[1].level = "error"

(* C4: when predict raises, the exception is caught inside run(): the      *)
(* submission ends with one error report carrying the cause, no decision   *)
(* message is shown and the script execution does not crash.               *)
C4_PredictFailureCaught ==
    (raised # "")
        => /\ ~crashed
           /\ reports = <<[level |-> "error",
                           text |-> <<"An error occurred during prediction: ", raised>>]>>
           /\ prediction = <<>>
           /\ ~DecisionShown

C4_Witness ==
    /\ submitted
    /\ raised = "ValueError"
    /\ Len(calls) = 1
    /\ Len(reports) = 1

(* C5: over any sequence of load_model calls the artifact is read from     *)
(* storage at most once.                                                   *)
C5_ReadAtMostOnce == reads <= 1

(* C6: the term put in the feature record is 60, 180, 240, 360, 480 for    *)
(* the indices 0..4 and 60 for any other index, without failing; so it is  *)
(* always one of these five values.                                        *)
C6_DurationResolved ==
    (calls # <<>>)
        => LET d == form.duration
               term == calls[1].rows[1][9]
           IN  /\ ~crashed
               /\ (d = 0) => (term = 60)
               /\ (d = 1) => (term = 180)
               /\ (d = 2) => (term = 240)
               /\ (d = 3) => (term = 360)
               /\ (d = 4) => (term = 480)
               /\ (d \notin 0..4) => (term = 60)
               /\ term \in TermValues

C6_Witness ==
    /\ calls # <<>>
    /\ form.duration \notin 0..4
    /\ calls[1].rows[1][9] = 60

(* C7: a valid submission with the model loaded hands predict exactly one  *)
(* frame of one row, whose ten values are gender, married, dependents,     *)
(* education, self-employed, applicant income, co-applicant income, loan   *)
(* amount, term, property area in this order, under the column names of    *)
(* the same positions.                                                     *)
C7_FeatureRecordOrder ==
    /\ (submitted /\ IdentityGiven /\ model = "artifact") => (Len(calls) = 1)
    /\ (calls # <<>>)
          => /\ Len(calls) = 1
             /\ Len(calls[1].rows) = 1
             /\ calls[1].columns =
                   <<"Gender", "Married", "Dependents", "Education",
                     "Self_Employed", "ApplicantIncome", "CoapplicantIncome",
                     "LoanAmount", "Loan_Amount_Term", "Property_Area">>
             /\ calls[1].rows[1] =
                   <<form.gender, form.marital, form.dependents,
                     form.education, form.employment, form.mon_income,
                     form.co_mon_income, form.loan_amount,
                     DurationValue(form.duration), form.area>>

C7_Witness ==
    /\ submitted
    /\ Len(calls) = 1
    /\ form.loan_amount = 1
    /\ calls[1].rows[1][8] = 1

(* C8: a submission in which an income or the loan amount is negative is   *)
(* refused by the builder, and predict is never handed a negative value.   *)
C8_NegativeAmountRejected ==
    (submitted /\ (form.mon_income < 0 \/ form.co_mon_income < 0
                      \/ form.loan_amount < 0))
        => calls = <<>>

(* C9: a submission goes through Collecting, Validating, Encoding,         *)
(* Inferring, Presenting in this order, leaves to Failed only from         *)
(* Validating or Inferring, ends in exactly one terminal stage with        *)
(* exactly one report, and calls predict at most once.                     *)
C9_StageOrder ==
    submitted
        => /\ stages # <<>>
           /\ stages[1] = "Collecting"
           /\ \A i \in 1..(Len(stages) - 1) :
                 IF stages[i + 1] = "Failed"
                 THEN stages[i] \in {"Validating", "Inferring"}
                 ELSE StageRank(stages[i + 1]) = StageRank(stages[i]) + 1
           /\ stages[Len(stages)] \in {"Presenting", "Failed"}
           /\ Cardinality({i \in 1..Len(stages) :
                              stages[i] \in {"Presenting", "Failed"}}) = 1
           /\ Len(reports) = 1
           /\ Len(calls) <= 1

C9_Witness ==
    /\ submitted
    /\ stages = <<"Collecting", "Validating", "Encoding", "Inferring", "Failed">>
    /\ Len(reports) = 1

(* C10: the identity check comes before the model check: with an empty     *)
(* identity field and no model the report is the validation error, and the *)
(* model-unavailable report appears only when both fields are filled.      *)
C10_IdentityCheckFirst ==
    /\ (submitted /\ ~IdentityGiven /\ model = "None")
          => (reports = <<ValidationMsg>>)
    /\ (\E i \in 1..Len(reports) : reports[i] = UnavailableMsg) => IdentityGiven

C10_Witness ==
    /\ submitted
    /\ ~IdentityGiven
    /\ model = "None"
    /\ load_error
    /\ reports = <<ValidationMsg>>

====
